---------------------------- MODULE Spec2Model ----------------------------
(***************************************************************************)
(* A model of the WebRTC echo server in src/server.py: the ICE-server      *)
(* resolver with its module-level cache, the /offer signaling handler and  *)
(* the per-connection state observer, the set of live peer connections,    *)
(* and the statistics counters.                                            *)
(*                                                                         *)
(* The handlers are asyncio coroutines: the code between two awaits runs   *)
(* without interruption, so every action below is one such stretch.        *)
(* aiortc (the media engine) and the Twilio client are outside the         *)
(* repository: they are the environment, modelled by the choices the       *)
(* actions draw with \E.                                                   *)
(***************************************************************************)
EXTENDS Integers, Sequences, FiniteSets, TLC

(***************************************************************************)
(* Python values.                                                          *)
(***************************************************************************)
\* Python's None, for an environment variable that is not set and for a
\* dict.get() of a key that is absent.
None == "None"

\* Python truthiness of an Optional[str]: None and "" are falsy.
Truthy(s) == s \notin {None, ""}

\* dict.get(k): the value, or None when the key is absent.
Get(d, k) == IF k \in DOMAIN d THEN d[k] ELSE None

\* An Optional[list]: <<>> is None, <<l>> is the list l (which may be empty).
NoList == <<>>
Some(l) == <<l>>

\* Python truthiness of an Optional[list]: None and [] are falsy.
TruthyList(c) == c # NoList /\ Len(c[1]) > 0

(***************************************************************************)
(* URLs.  A URL string "scheme:host:port?transport=t" is kept as its       *)
(* parts; transport "" is a URL without the query.                         *)
(***************************************************************************)
Url(scheme, host, port, transport) ==
    [scheme |-> scheme, host |-> host, port |-> port, transport |-> transport]

\* The value of a descriptor's "urls" key: one string, or a list of strings.
UrlStr(u) == [islist |-> FALSE, items |-> <<u>>]
UrlList(us) == [islist |-> TRUE, items |-> us]

(***************************************************************************)
(* Bounds of the model.                                                    *)
(***************************************************************************)
\* How many times the clock advances in a run.
MaxTicks == 1

\* How many POST /offer requests arrive in a run.
MaxOffers == 1

\* How many POST /offer handlers run side by side in a run of SpecOffers.
MaxRequests == 2

\* How many attempts, and how many failures, are counted in a run of
\* SpecStats.
MaxAttempts == 10

\* How many latency samples are appended in a run of SpecLatency.
MaxSamples == 105

\* How many inbound tracks one offer announces in a run of SpecMedia.
MaxTracks == 2

(***************************************************************************)
(* Program constants.                                                      *)
(***************************************************************************)
_cache_ttl == 3600

\* The port of the operator's coturn relay: f"turn:{custom_turn}:3478".
TurnPort == 3478

\* os.environ.get('CUSTOM_TURN_USER', 'webrtc') and
\* os.environ.get('CUSTOM_TURN_PASS', 'webrtc123')
DefaultTurnUser == "webrtc"
DefaultTurnPass == "webrtc123"

\* default_servers before the relay is appended.
DefaultStun ==
    << [urls |-> UrlStr(Url("stun", "stun.l.google.com", 19302, ""))],
       [urls |-> UrlStr(Url("stun", "stun1.l.google.com", 19302, ""))] >>

(***************************************************************************)
(* The process environment (os.environ), fixed when the process starts.    *)
(***************************************************************************)
Environments ==
    { e \in [ TWILIO_ACCOUNT_SID : {None, "AC0001"},
              TWILIO_AUTH_TOKEN  : {None, "secret"},
              CUSTOM_TURN_SERVER : {None, "203.0.113.7"},
              CUSTOM_TURN_USER   : {None, "operator"},
              CUSTOM_TURN_PASS   : {None, "hunter2"} ] :
        \* the relay's user and password are set together or not at all,
        \* and only beside a relay host; a lone auth token is not drawn
        /\ (e.CUSTOM_TURN_USER = None) = (e.CUSTOM_TURN_PASS = None)
        /\ (e.CUSTOM_TURN_SERVER = None) => (e.CUSTOM_TURN_USER = None)
        /\ (e.TWILIO_ACCOUNT_SID = None) => (e.TWILIO_AUTH_TOKEN = None) }

\* os.environ.get(name, default)
EnvGet(e, name, default) == IF e[name] = None THEN default ELSE e[name]

(***************************************************************************)
(* The credential service (Twilio), as the client library shows it to      *)
(* get_ice_servers: client.tokens.create() raises, or returns a token whose*)
(* ice_servers is a list of dicts.                                         *)
(***************************************************************************)
TwilioStun ==
    [urls |-> UrlStr(Url("stun", "global.stun.twilio.com", 3478, ""))]
TwilioTurnUdp ==
    [urls |-> UrlStr(Url("turn", "global.turn.twilio.com", 3478, "udp")),
     username |-> "tw-user", credential |-> "tw-cred"]
TwilioTurnTcp ==
    [urls |-> UrlStr(Url("turn", "global.turn.twilio.com", 443, "tcp")),
     username |-> "tw-user", credential |-> "tw-cred"]
\* an entry whose "urls" is a list: the relay over UDP and over TCP
TwilioTurnBoth ==
    [urls |-> UrlList(<< Url("turn", "global.turn.twilio.com", 3478, "udp"),
                         Url("turn", "global.turn.twilio.com", 443, "tcp") >>),
     username |-> "tw-user", credential |-> "tw-cred"]
\* an entry with credentials whose "urls" is the empty list
TwilioTurnNoUrl ==
    [urls |-> UrlList(<<>>), username |-> "tw-user", credential |-> "tw-cred"]
\* an entry of a malformed response: no "urls" key
TwilioNoUrls ==
    [username |-> "tw-user", credential |-> "tw-cred"]

\* What one call of the credential service can do.
TwilioOutcomes ==
    { [raises |-> "network", ice_servers |-> <<>>],
      [raises |-> "auth", ice_servers |-> <<>>],
      [raises |-> "", ice_servers |-> <<>>],
      [raises |-> "", ice_servers |-> <<TwilioStun, TwilioTurnUdp>>],
      [raises |-> "", ice_servers |-> <<TwilioTurnTcp>>],
      [raises |-> "", ice_servers |-> <<TwilioTurnBoth>>],
      [raises |-> "", ice_servers |-> <<TwilioStun, TwilioTurnNoUrl>>],
      [raises |-> "", ice_servers |-> <<TwilioStun, TwilioNoUrls>>] }

(***************************************************************************)
(* get_ice_servers.                                                        *)
(***************************************************************************)
\* The comparison with the TTL made with <= in place of <.
CacheFreshAtTtl(cache, timestamp, current_time) ==
    TruthyList(cache) /\ (current_time - timestamp) <= _cache_ttl

\* Line 29: the cache is used when it is truthy and younger than the TTL.
CacheFresh(cache, timestamp, current_time) ==
    TruthyList(cache) /\ (current_time - timestamp) < _cache_ttl

\* Line 36: both Twilio variables are set (and not empty).
TwilioConfigured(e) ==
    Truthy(e.TWILIO_ACCOUNT_SID) /\ Truthy(e.TWILIO_AUTH_TOKEN)

\* Lines 41-47: the loop over token.ice_servers.  ice_server["urls"] raises
\* KeyError when the key is absent; .get() gives None.
RECURSIVE CollectIceServers(_, _)
CollectIceServers(entries, ice_servers) ==
    IF entries = <<>> THEN [raised |-> FALSE, ice_servers |-> ice_servers]
    ELSE LET ice_server == Head(entries) IN
         IF "urls" \notin DOMAIN ice_server
         THEN [raised |-> TRUE, ice_servers |-> ice_servers]
         ELSE CollectIceServers(Tail(entries),
                  Append(ice_servers,
                         [urls |-> ice_server.urls,
                          username |-> Get(ice_server, "username"),
                          credential |-> Get(ice_server, "credential")]))

\* The loop over token.ice_servers left outside the try block: its KeyError
\* leaves get_ice_servers.
TwilioProviderLoopUnguarded(outcome) ==
    IF outcome.raises # "" THEN [status |-> "caught", ice_servers |-> <<>>]
    ELSE LET r == CollectIceServers(outcome.ice_servers, <<>>) IN
         IF r.raised THEN [status |-> "raised", ice_servers |-> <<>>]
         ELSE [status |-> "ok", ice_servers |-> r.ice_servers]

\* Lines 37-55: the try block around the Twilio request.  status is "ok"
\* (the list is cached and returned), "caught" (the except branch logged the
\* failure and the code falls through) or "raised" (an exception left the
\* block: the try covers the request and the loop, so this never happens).
TwilioProvider(outcome) ==
    IF outcome.raises # "" THEN [status |-> "caught", ice_servers |-> <<>>]
    ELSE LET r == CollectIceServers(outcome.ice_servers, <<>>) IN
         IF r.raised THEN [status |-> "caught", ice_servers |-> <<>>]
         ELSE [status |-> "ok", ice_servers |-> r.ice_servers]

\* The relay put before the STUN pair instead of appended to it.
StaticProviderRelayFirst(e) ==
    LET custom_turn == e.CUSTOM_TURN_SERVER
        custom_turn_user == EnvGet(e, "CUSTOM_TURN_USER", DefaultTurnUser)
        custom_turn_pass == EnvGet(e, "CUSTOM_TURN_PASS", DefaultTurnPass)
    IN  IF Truthy(custom_turn)
        THEN <<[urls |-> UrlStr(Url("turn", custom_turn, TurnPort, "")),
                username |-> custom_turn_user,
                credential |-> custom_turn_pass]>> \o DefaultStun
        ELSE DefaultStun

\* The relay appended when custom_turn_user is truthy (it always is: it has
\* a default) instead of when custom_turn is.
StaticProviderChecksUser(e) ==
    LET custom_turn == e.CUSTOM_TURN_SERVER
        custom_turn_user == EnvGet(e, "CUSTOM_TURN_USER", DefaultTurnUser)
        custom_turn_pass == EnvGet(e, "CUSTOM_TURN_PASS", DefaultTurnPass)
    IN  IF Truthy(custom_turn_user)
        THEN Append(DefaultStun,
                    [urls |-> UrlStr(Url("turn", custom_turn, TurnPort, "")),
                     username |-> custom_turn_user,
                     credential |-> custom_turn_pass])
        ELSE DefaultStun

\* Lines 59-79: the default STUN pair, and the operator's relay after it
\* when CUSTOM_TURN_SERVER is set.
StaticProvider(e) ==
    LET custom_turn == e.CUSTOM_TURN_SERVER
        custom_turn_user == EnvGet(e, "CUSTOM_TURN_USER", DefaultTurnUser)
        custom_turn_pass == EnvGet(e, "CUSTOM_TURN_PASS", DefaultTurnPass)
    IN  IF Truthy(custom_turn)
        THEN Append(DefaultStun,
                    [urls |-> UrlStr(Url("turn", custom_turn, TurnPort, "")),
                     username |-> custom_turn_user,
                     credential |-> custom_turn_pass])
        ELSE DefaultStun

\* The static list returned without being stored: lines 81-82 left out.
get_ice_servers_no_store(cache, timestamp, current_time, e, outcome) ==
    IF CacheFresh(cache, timestamp, current_time)
    THEN [cache |-> cache, timestamp |-> timestamp, result |-> cache[1],
          raised |-> FALSE, calls |-> 0]
    ELSE
      LET tw == IF TwilioConfigured(e) THEN TwilioProvider(outcome)
                ELSE [status |-> "skipped", ice_servers |-> <<>>]
          calls == IF TwilioConfigured(e) THEN 1 ELSE 0
      IN  IF tw.status = "ok"
          THEN [cache |-> Some(tw.ice_servers), timestamp |-> current_time,
                result |-> tw.ice_servers, raised |-> FALSE, calls |-> calls]
          ELSE [cache |-> cache, timestamp |-> timestamp,
                result |-> StaticProvider(e), raised |-> FALSE,
                calls |-> calls]

\* The static list appended to the credential service's list instead of
\* being the fallback for it.
get_ice_servers_all_providers(cache, timestamp, current_time, e, outcome) ==
    IF CacheFresh(cache, timestamp, current_time)
    THEN [cache |-> cache, timestamp |-> timestamp, result |-> cache[1],
          raised |-> FALSE, calls |-> 0]
    ELSE
      LET tw == IF TwilioConfigured(e) THEN TwilioProvider(outcome)
                ELSE [status |-> "skipped", ice_servers |-> <<>>]
          calls == IF TwilioConfigured(e) THEN 1 ELSE 0
          ice_servers == tw.ice_servers \o StaticProvider(e)
      IN  [cache |-> Some(ice_servers), timestamp |-> current_time,
           result |-> ice_servers, raised |-> FALSE, calls |-> calls]

\* Lines 25-83.  The result: the cache and timestamp the call leaves, the
\* list it returns (result, with raised = FALSE) or the fact that it raised,
\* and the number of requests it made to the credential service.
get_ice_servers(cache, timestamp, current_time, e, outcome) ==
    IF CacheFresh(cache, timestamp, current_time)
    THEN [cache |-> cache, timestamp |-> timestamp, result |-> cache[1],
          raised |-> FALSE, calls |-> 0]
    ELSE
      LET tw == IF TwilioConfigured(e) THEN TwilioProvider(outcome)
                ELSE [status |-> "skipped", ice_servers |-> <<>>]
          calls == IF TwilioConfigured(e) THEN 1 ELSE 0
      IN  CASE tw.status = "ok" ->
                 [cache |-> Some(tw.ice_servers), timestamp |-> current_time,
                  result |-> tw.ice_servers, raised |-> FALSE, calls |-> calls]
            [] tw.status = "raised" ->
                 [cache |-> cache, timestamp |-> timestamp, result |-> <<>>,
                  raised |-> TRUE, calls |-> calls]
            [] OTHER ->
                 LET default_servers == StaticProvider(e) IN
                 [cache |-> Some(default_servers), timestamp |-> current_time,
                  result |-> default_servers, raised |-> FALSE, calls |-> calls]

(***************************************************************************)
(* convert_to_rtc_ice_servers and the statistics.                          *)
(***************************************************************************)
\* 'transport=tcp' in url or ':443' in url (line 97): the tests are on the
\* text of the URL, so a port whose digits begin with 443 matches too.
PrefersTcp(url) ==
    \/ url.transport = "tcp"
    \/ url.port = 443 \/ url.port \div 10 = 443 \/ url.port \div 100 = 443

\* RTCIceServer(urls=..., username=..., credential=...): aiortc's dataclass
\* keeps what it is given, and username and credential default to None.
RTCIceServer(urls, username, credential) ==
    [urls |-> urls, username |-> username, credential |-> credential]

\* Lines 90-110: one turn of the loop, the RTCIceServer appended for one
\* descriptor.
ConvertServer(server) ==
    LET urls == IF "urls" \in DOMAIN server THEN server.urls
                ELSE UrlList(<<>>)
        username == Get(server, "username")
        credential == Get(server, "credential")
    IN  IF Truthy(username) /\ Truthy(credential)
        THEN LET filtered == SelectSeq(urls.items, PrefersTcp)
                 tcp_urls == IF urls.islist
                             THEN IF Len(filtered) = 0 THEN urls.items
                                  ELSE filtered
                             ELSE urls.items
             IN  RTCIceServer(UrlList(tcp_urls), username, credential)
        ELSE RTCIceServer(urls, None, None)

\* Lines 85-112: every descriptor gives one RTCIceServer, in order.
convert_to_rtc_ice_servers(ice_servers_data) ==
    [i \in 1 .. Len(ice_servers_data) |-> ConvertServer(ice_servers_data[i])]

\* Lines 192-195: the sample is appended, and only the last 100 are kept.
LatencyWindow == 100

LastN(seq, n) ==
    IF Len(seq) > n THEN SubSeq(seq, Len(seq) - n + 1, Len(seq)) ELSE seq

\* The first 100 kept instead of the last: connection_times[:100].
RecordLatencyKeepsFirst(connection_times, total_time) ==
    LET appended == Append(connection_times, total_time)
    IN  IF Len(appended) > LatencyWindow
        THEN SubSeq(appended, 1, LatencyWindow)
        ELSE appended

RecordLatency(connection_times, total_time) ==
    LET appended == Append(connection_times, total_time)
    IN  IF Len(appended) > LatencyWindow
        THEN LastN(appended, LatencyWindow)
        ELSE appended

\* Python's true division a / b of two integers, kept exact as the pair:
\* the float the code computes is the nearest double to it.
Ratio(num, den) == [num |-> num, den |-> den]

Max(a, b) == IF a >= b THEN a ELSE b

\* sum(recent_times)
RECURSIVE Sum(_)
Sum(seq) == IF seq = <<>> THEN 0 ELSE Head(seq) + Sum(Tail(seq))

\* The share of failures reported in place of the share of successes.
success_rate_of_failures(counters) ==
    Ratio(counters.failed_connections * 100,
          Max(counters.total_connections, 1))

\* Lines 261-262: ((total - failed) / max(total, 1)) * 100.
success_rate(counters) ==
    Ratio((counters.total_connections - counters.failed_connections) * 100,
          Max(counters.total_connections, 1))

\* Lines 251-252: the mean of the last 10 samples, or 0 without a sample.
average_connection_time_ms(connection_times) ==
    LET recent_times == LastN(connection_times, 10)
    IN  IF Len(recent_times) > 0
        THEN Ratio(Sum(recent_times), Len(recent_times))
        ELSE Ratio(0, 1)

\* Line 268: total / (uptime / 60) when uptime > 60, else 0.
connections_per_minute(counters, uptime) ==
    IF uptime > 60 THEN Ratio(counters.total_connections * 60, uptime)
    ELSE Ratio(0, 1)

(***************************************************************************)
(* The state.                                                              *)
(***************************************************************************)
VARIABLES
    env,                 \* os.environ
    now,                 \* the clock: time.time() and the event loop's time()
    ticks,               \* how many times the clock has advanced
    _ice_servers_cache,  \* Optional[list]: the cached descriptors
    _cache_timestamp,    \* time.time() of the resolution that filled it
    ice_call,            \* the last call of get_ice_servers by an ICE
                         \* endpoint: which one, the cache before it, what
                         \* it returned, the response
    pcs,                 \* the set of live peer connections
    server_stats,        \* total_connections, failed_connections,
                         \* connection_times
    req,                 \* the POST /offer requests: where each handler is
    pc,                  \* the peer connection each request created
    shutdown,            \* on_shutdown: its phase, the closes it awaits
    history,             \* every latency sample appended, in arrival order
    stats,               \* the body of the last answer of GET /stats
    health               \* the body of the last answer of GET /health

vars == <<env, now, ticks, _ice_servers_cache, _cache_timestamp, ice_call,
          pcs, server_stats, req, pc, shutdown, history, stats, health>>

iceVars == <<_ice_servers_cache, _cache_timestamp, ice_call>>
sigVars == <<pcs, server_stats, req, pc, shutdown, history>>

Offers == 1 .. MaxOffers

\* The requests of SpecOffers, and every request of any run.
Requests == 1 .. MaxRequests
Handlers == Offers \cup Requests

\* No call of get_ice_servers yet.
NoOutcome == [raises |-> "", ice_servers |-> <<>>]

NoIceCall ==
    [op |-> "none", pre_cache |-> NoList, pre_timestamp |-> 0, at |-> 0,
     result |-> <<>>, raised |-> FALSE, calls |-> 0, outcome |-> NoOutcome,
     status |-> 0, body |-> <<>>]

\* The record of one call: r is what get_ice_servers returned, called by
\* handler op at time `at` when the globals were (pre_cache, pre_timestamp);
\* outcome is what the credential service did if it was asked; the handler
\* answered with HTTP status and the list body.
IceCall(op, pre_cache, pre_timestamp, at, r, outcome, status, body) ==
    [op |-> op, pre_cache |-> pre_cache, pre_timestamp |-> pre_timestamp,
     at |-> at, result |-> r.result, raised |-> r.raised, calls |-> r.calls,
     outcome |-> IF r.calls > 0 THEN outcome ELSE NoOutcome,
     status |-> status, body |-> body]

\* A request that has not arrived.  at: where the handler is ("idle", then
\* the await it is suspended in: "json", "remote", "answer", "local", then
\* "done"); body: what request.json() gave; status: the HTTP status it
\* returned; total_incs, failed_incs: how many times this handler has
\* incremented each counter; in_pcs_at_return: whether its peer connection
\* was in pcs when it returned.
NoRequest ==
    [at |-> "idle", body |-> "", start_time |-> 0, status |-> 0,
     created |-> FALSE, total_incs |-> 0, failed_incs |-> 0,
     in_pcs_at_return |-> FALSE, failed_at |-> ""]

\* A peer connection that does not exist yet.  connectionState is aiortc's
\* pc.connectionState; pending: the on_connectionstatechange tasks that are
\* scheduled and have not run; samples: the latency samples its observer
\* has appended; iceServers: the RTCConfiguration's iceServers it was
\* created with; removed: its observer has run the failed/closed branch;
\* tracks: the inbound tracks the engine has announced, each with the
\* frames its recv() yields (frames), whether it raises after them (ends),
\* how many it has yielded (pos) and whether it has raised (failed);
\* senders: the AudioEchoTrack objects given to pc.addTrack, each with the
\* inbound track it wraps (track), the frames its recv() has returned
\* (returned) and whether its recv() has raised (raised).
NoPc == [connectionState |-> "none", pending |-> 0, samples |-> 0,
         iceServers |-> <<>>, removed |-> FALSE, tracks |-> <<>>,
         senders |-> <<>>]

\* GET /stats has not been asked.
NoStats == [asked |-> FALSE]

\* GET /health has not been asked.
NoHealth == [asked |-> FALSE]

\* on_shutdown has not been called.  phase: "running", then "closing" while
\* the handler awaits gather, then "done"; closing: the close() coroutines
\* that have not run yet; at_begin: the members of pcs when the handler
\* began; calls: how many times close() was invoked on each connection;
\* errors: the connections whose close() raised; raised: whether an
\* exception left the handler.
NoShutdown ==
    [phase |-> "running", closing |-> {}, at_begin |-> {},
     calls |-> [r \in Handlers |-> 0], errors |-> {}, raised |-> FALSE]

\* create_app (lines 351-356) and the module's globals (lines 21-22,
\* 117-126).
Init ==
    /\ env \in Environments
    /\ now = 2 * _cache_ttl
    /\ ticks = 0
    /\ _ice_servers_cache = NoList
    /\ _cache_timestamp = 0
    /\ ice_call = NoIceCall
    /\ pcs = {}
    /\ server_stats = [start_time |-> now, total_connections |-> 0,
                       failed_connections |-> 0, connection_times |-> <<>>]
    /\ req = [r \in Handlers |-> NoRequest]
    /\ pc = [r \in Handlers |-> NoPc]
    /\ shutdown = NoShutdown
    /\ history = <<>>
    /\ stats = NoStats
    /\ health = NoHealth

\* Time passes: d seconds.
Elapse(d) ==
    /\ ticks < MaxTicks
    /\ shutdown.phase # "done"
    /\ now' = now + d
    /\ ticks' = ticks + 1
    /\ UNCHANGED <<env, stats, health, iceVars, sigVars>>

\* A second passes.
Tick == Elapse(1)

\* The server is left alone for an hour, or for a second less.
Idle == \E d \in {_cache_ttl - 1, _cache_ttl} : Elapse(d)

(***************************************************************************)
(* The ICE-server endpoints.                                               *)
(***************************************************************************)
\* GET /ice-servers (lines 292-320): get_ice_servers, answered with 200; the
\* except branch answers 200 with the default STUN pair.
get_ice_servers_endpoint ==
    /\ shutdown.phase = "running"
    /\ \E outcome \in TwilioOutcomes :
         LET r == get_ice_servers(_ice_servers_cache, _cache_timestamp, now,
                                  env, outcome)
         IN  /\ _ice_servers_cache' = r.cache
             /\ _cache_timestamp' = r.timestamp
             /\ ice_call' = IceCall("ice-servers", _ice_servers_cache,
                                    _cache_timestamp, now, r, outcome, 200,
                                    IF r.raised THEN DefaultStun ELSE r.result)
    /\ UNCHANGED <<env, stats, health, now, ticks, sigVars>>

\* Lines 332-349 of POST /refresh-ice: get_ice_servers runs with the
\* globals as (cache, timestamp); 200 with the list, or 500 when it raised.
RefreshFrom(cache, timestamp) ==
    /\ shutdown.phase = "running"
    /\ \E outcome \in TwilioOutcomes :
         LET r == get_ice_servers(cache, timestamp, now, env, outcome)
         IN  /\ _ice_servers_cache' = r.cache
             /\ _cache_timestamp' = r.timestamp
             /\ ice_call' = IceCall("refresh-ice", _ice_servers_cache,
                                    _cache_timestamp, now, r, outcome,
                                    IF r.raised THEN 500 ELSE 200, r.result)
    /\ UNCHANGED <<env, stats, health, now, ticks, sigVars>>

\* A refresh suspended between its two assignments: the list is cleared
\* (line 328) and the handler gives way before line 329.
refresh_ice_servers_suspended ==
    /\ shutdown.phase = "running"
    /\ _ice_servers_cache' = NoList
    /\ UNCHANGED <<env, stats, health, now, ticks, _cache_timestamp,
                   ice_call, sigVars>>

\* A refresh that forgets to clear the cache first.
refresh_ice_servers_keeps_cache ==
    RefreshFrom(_ice_servers_cache, _cache_timestamp)

\* POST /refresh-ice (lines 322-349): the cache is cleared (lines 328-329),
\* then resolved again.
refresh_ice_servers == RefreshFrom(NoList, 0)

(***************************************************************************)
(* GET /stats (lines 245-278).                                             *)
(***************************************************************************)
\* The handler has no await: it reads the counters, pcs and the cache
\* globals in one step and answers with the snapshot.
get_stats ==
    /\ shutdown.phase = "running"
    /\ LET current_time == now
           uptime == current_time - server_stats.start_time
       IN  stats' =
             [asked |-> TRUE,
              uptime_seconds |-> uptime,
              current_connections |-> Cardinality(pcs),
              total_connections |-> server_stats.total_connections,
              failed_connections |-> server_stats.failed_connections,
              success_rate |-> success_rate(server_stats),
              average_connection_time_ms |->
                  average_connection_time_ms(server_stats.connection_times),
              connections_per_minute |->
                  connections_per_minute(server_stats, uptime),
              cache_age_seconds |->
                  IF _cache_timestamp # 0 THEN now - _cache_timestamp ELSE 0,
              total_ice_servers |->
                  IF TruthyList(_ice_servers_cache)
                  THEN Len(_ice_servers_cache[1]) ELSE 0]
    /\ UNCHANGED <<env, health, now, ticks, iceVars, sigVars>>

\* GET /health (lines 280-290): no await either; it reports len(pcs) and
\* the time.
health_check ==
    /\ shutdown.phase = "running"
    /\ health' = [asked |-> TRUE, connections |-> Cardinality(pcs),
                  timestamp |-> now]
    /\ UNCHANGED <<env, stats, now, ticks, iceVars, sigVars>>

\* Line 171 on its own: an attempt is counted.
CountAttempt ==
    /\ server_stats.total_connections < MaxAttempts
    /\ server_stats' = [server_stats EXCEPT !.total_connections = @ + 1]
    /\ UNCHANGED <<env, stats, health, now, ticks, iceVars, pcs, req, pc,
                   shutdown, history>>

\* Line 230 on its own: a failure is counted.
CountFailure ==
    /\ server_stats.failed_connections < MaxAttempts
    /\ server_stats' = [server_stats EXCEPT !.failed_connections = @ + 1]
    /\ UNCHANGED <<env, stats, health, now, ticks, iceVars, pcs, req, pc,
                   shutdown, history>>

(***************************************************************************)
(* POST /offer (lines 149-236).                                            *)
(***************************************************************************)
\* What request.json() can give: a well-formed offer, a body that is not
\* JSON (request.json() raises), a body without "sdp" (KeyError).
Bodies == {"offer", "not-json", "no-sdp"}

\* params.get("sdp") in place of params["sdp"]: a missing sdp is no error.
ParseRaisesSdpOptional(body) == body \notin {"offer", "no-sdp"}

\* Lines 154-157: request.json() or params["sdp"] raises unless the body is
\* a well-formed offer.
ParseRaises(body) == body # "offer"

\* A lost update: the except branch writes back this handler's own count
\* of failures plus one, not the shared counter plus one.
OfferFailsLosesUpdates(r, where, body) ==
    /\ server_stats' =
         [server_stats EXCEPT !.failed_connections = req[r].failed_incs + 1]
    /\ req' = [req EXCEPT ![r].at = "done", ![r].status = 500,
                          ![r].failed_incs = @ + 1,
                          ![r].failed_at = where, ![r].body = body,
                          ![r].in_pcs_at_return = r \in pcs]

\* Lines 228-236: the except branch.  The counter is incremented and 500 is
\* returned; pcs is left as it is.
OfferFails(r, where, body) ==
    /\ server_stats' =
         [server_stats EXCEPT !.failed_connections = @ + 1]
    /\ req' = [req EXCEPT ![r].at = "done", ![r].status = 500,
                          ![r].failed_incs = @ + 1,
                          ![r].failed_at = where, ![r].body = body,
                          ![r].in_pcs_at_return = r \in pcs]

\* Line 151: the handler starts and awaits request.json().
OfferBegin(r) ==
    /\ shutdown.phase = "running"
    /\ req[r].at = "idle"
    /\ IF r = 1 THEN TRUE ELSE req[r - 1].at # "idle"
    /\ req' = [req EXCEPT ![r].at = "json", ![r].start_time = now]
    /\ UNCHANGED <<env, stats, health, now, ticks, iceVars, pcs,
                   server_stats, pc, shutdown, history>>

\* The peer connection added to pcs without the counter: line 171 moved
\* behind the await of setRemoteDescription.
OfferParseCountsLater(r) ==
    /\ req[r].at = "json"
    /\ \E body \in Bodies, outcome \in TwilioOutcomes :
         LET g == get_ice_servers(_ice_servers_cache, _cache_timestamp, now,
                                  env, outcome)
         IN  IF ParseRaises(body)
             THEN /\ OfferFails(r, "parse", body)
                  /\ UNCHANGED <<_ice_servers_cache, _cache_timestamp, pcs, pc>>
             ELSE IF g.raised
             THEN /\ OfferFails(r, "resolve", body)
                  /\ _ice_servers_cache' = g.cache
                  /\ _cache_timestamp' = g.timestamp
                  /\ UNCHANGED <<pcs, pc>>
             ELSE /\ _ice_servers_cache' = g.cache
                  /\ _cache_timestamp' = g.timestamp
                  /\ pcs' = pcs \cup {r}
                  /\ pc' = [pc EXCEPT ![r].connectionState = "new",
                                      ![r].iceServers =
                                          convert_to_rtc_ice_servers(g.result)]
                  /\ UNCHANGED server_stats
                  /\ req' = [req EXCEPT ![r].at = "remote", ![r].body = body,
                                        ![r].created = TRUE,
                                        ![r].total_incs = @]
    /\ UNCHANGED <<env, stats, health, now, ticks, ice_call, shutdown,
                   history>>

\* Lines 154-198: the body is read.  A malformed body goes to the except
\* branch before anything else is done.  Otherwise the ICE servers are
\* resolved (an exception from get_ice_servers would go to the except
\* branch too), the peer connection is created and added to pcs, the
\* counter is incremented, the observers are registered, and the handler
\* awaits setRemoteDescription.
OfferParse(r) ==
    /\ req[r].at = "json"
    /\ \E body \in Bodies, outcome \in TwilioOutcomes :
         LET g == get_ice_servers(_ice_servers_cache, _cache_timestamp, now,
                                  env, outcome)
         IN  IF ParseRaises(body)
             THEN /\ OfferFails(r, "parse", body)
                  /\ UNCHANGED <<_ice_servers_cache, _cache_timestamp, pcs, pc>>
             ELSE IF g.raised
             THEN /\ OfferFails(r, "resolve", body)
                  /\ _ice_servers_cache' = g.cache
                  /\ _cache_timestamp' = g.timestamp
                  /\ UNCHANGED <<pcs, pc>>
             ELSE /\ _ice_servers_cache' = g.cache
                  /\ _cache_timestamp' = g.timestamp
                  /\ pcs' = pcs \cup {r}
                  /\ pc' = [pc EXCEPT ![r].connectionState = "new",
                                      ![r].iceServers =
                                          convert_to_rtc_ice_servers(g.result)]
                  /\ server_stats' =
                       [server_stats EXCEPT !.total_connections = @ + 1]
                  /\ req' = [req EXCEPT ![r].at = "remote", ![r].body = body,
                                        ![r].created = TRUE,
                                        ![r].total_incs = @ + 1]
    /\ UNCHANGED <<env, stats, health, now, ticks, ice_call, shutdown,
                   history>>

\* Lines 198-201: setRemoteDescription returns and createAnswer is awaited,
\* or setRemoteDescription raises.
OfferRemote(r) ==
    /\ req[r].at = "remote"
    /\ \/ req' = [req EXCEPT ![r].at = "answer"] /\ UNCHANGED server_stats
       \/ OfferFails(r, "remote", req[r].body)
    /\ UNCHANGED <<env, stats, health, now, ticks, iceVars, pcs, pc,
                   shutdown, history>>

\* Lines 201-204: createAnswer returns and setLocalDescription is awaited,
\* or createAnswer raises.
OfferAnswer(r) ==
    /\ req[r].at = "answer"
    /\ \/ req' = [req EXCEPT ![r].at = "local"] /\ UNCHANGED server_stats
       \/ OfferFails(r, "answer", req[r].body)
    /\ UNCHANGED <<env, stats, health, now, ticks, iceVars, pcs, pc,
                   shutdown, history>>

\* Lines 204-226: setLocalDescription returns and the answer is sent with
\* status 200, or setLocalDescription raises.
OfferLocal(r) ==
    /\ req[r].at = "local"
    /\ \/ /\ req' = [req EXCEPT ![r].at = "done", ![r].status = 200,
                                ![r].in_pcs_at_return = r \in pcs]
          /\ UNCHANGED server_stats
       \/ OfferFails(r, "local", req[r].body)
    /\ UNCHANGED <<env, stats, health, now, ticks, iceVars, pcs, pc,
                   shutdown, history>>

(***************************************************************************)
(* The media engine and the connection-state observer.                     *)
(***************************************************************************)
\* Lines 192-195: the observer records one latency sample.
RecordSample(total_time) ==
    /\ server_stats' = [server_stats EXCEPT !.connection_times =
                            RecordLatency(@, total_time)]
    /\ history' = Append(history, total_time)

\* aiortc's connection states, as __updateConnectionState moves them once
\* both descriptions are set: the event is emitted on a change of state,
\* and an async listener is scheduled as a task of its own.
EngineMoves ==
    { <<"new", "connecting">>, <<"connecting", "connected">>,
      <<"connecting", "failed">>, <<"connected", "failed">> }

EngineStateChange(r) ==
    /\ shutdown.phase # "done"
    /\ req[r].at = "done" /\ req[r].status = 200
    /\ \E m \in EngineMoves :
         /\ pc[r].connectionState = m[1]
         /\ pc' = [pc EXCEPT ![r].connectionState = m[2],
                             ![r].pending = @ + 1]
    /\ UNCHANGED <<env, stats, health, now, ticks, iceVars, pcs,
                   server_stats, req, shutdown, history>>

\* Lines 182-196: one scheduled on_connectionstatechange task runs.  It
\* reads pc.connectionState as it is now.
on_connectionstatechange(r) ==
    /\ shutdown.phase # "done"
    /\ pc[r].pending > 0
    /\ LET connection_time == now
           state == pc[r].connectionState
       IN  \/ /\ state \in {"failed", "closed"}
              /\ pcs' = pcs \ {r}
              /\ pc' = [pc EXCEPT ![r].pending = @ - 1,
                                  ![r].removed = TRUE]
              /\ UNCHANGED <<server_stats, history>>
           \/ /\ state = "connected"
              /\ RecordSample((connection_time - req[r].start_time) * 1000)
              /\ pc' = [pc EXCEPT ![r].pending = @ - 1,
                                  ![r].samples = @ + 1]
              /\ UNCHANGED pcs
           \/ /\ state \notin {"failed", "closed", "connected"}
              /\ pc' = [pc EXCEPT ![r].pending = @ - 1]
              /\ UNCHANGED <<pcs, server_stats, history>>
    /\ UNCHANGED <<env, stats, health, now, ticks, iceVars, req, shutdown>>

(***************************************************************************)
(* The inbound tracks and AudioEchoTrack (lines 128-143, 175-180).         *)
(***************************************************************************)
\* What an inbound track's recv() does over its life: it yields the frames
\* in order, and then raises (the track has ended) or yields nothing more.
Sources ==
    { [frames |-> <<>>, ends |-> TRUE],
      [frames |-> <<"f1", "f2">>, ends |-> FALSE],
      [frames |-> <<"f2", "f1", "f1">>, ends |-> TRUE] }

\* self.track.recv(): the next frame, or the exception.
TrackRecv(track) ==
    IF track.pos < Len(track.frames)
    THEN [raises |-> FALSE, frame |-> track.frames[track.pos + 1]]
    ELSE [raises |-> TRUE, frame |-> None]

\* A recv that returns no frame instead of re-raising: `return None` in the
\* except branch in place of `raise`.
AudioEchoTrackRecvSwallows(inbound) ==
    IF inbound.raises THEN [raises |-> FALSE, frame |-> None]
    ELSE [raises |-> FALSE, frame |-> inbound.frame]

\* Lines 136-143, AudioEchoTrack.recv given what self.track.recv() did: the
\* frame is returned as it is; an exception is logged and raised again.
AudioEchoTrackRecv(inbound) ==
    IF inbound.raises THEN [raises |-> TRUE, frame |-> None]
    ELSE [raises |-> FALSE, frame |-> inbound.frame]

\* Lines 175-180: the engine announces an inbound track while
\* setRemoteDescription runs.  For an audio track a new AudioEchoTrack
\* wrapping it is given to pc.addTrack; any other kind is ignored.
on_track(r) ==
    /\ req[r].at = "remote"
    /\ Len(pc[r].tracks) < MaxTracks
    /\ \E kind \in {"audio", "video"}, source \in Sources :
         LET track == [kind |-> kind, frames |-> source.frames,
                       ends |-> source.ends, pos |-> 0, failed |-> FALSE]
             n == Len(pc[r].tracks) + 1
         IN  pc' = [pc EXCEPT
                      ![r].tracks = Append(@, track),
                      ![r].senders =
                          IF kind = "audio"
                          THEN Append(@, [track |-> n, returned |-> <<>>,
                                          raised |-> FALSE])
                          ELSE @]
    /\ UNCHANGED <<env, stats, health, now, ticks, iceVars, pcs,
                   server_stats, req, shutdown, history>>

\* The engine's sender asks its AudioEchoTrack for the next frame: one call
\* of recv (lines 136-143).  It stops asking once recv has raised.
recv(r) ==
    /\ req[r].at = "done" /\ req[r].status = 200
    /\ \E i \in DOMAIN pc[r].senders :
         LET sender == pc[r].senders[i]
             track == pc[r].tracks[sender.track]
             inbound == TrackRecv(track)
             result == AudioEchoTrackRecv(inbound)
         IN  /\ ~sender.raised
             /\ inbound.raises => track.ends
             /\ pc' = [pc EXCEPT
                   ![r].tracks[sender.track] =
                       IF inbound.raises THEN [@ EXCEPT !.failed = TRUE]
                       ELSE [@ EXCEPT !.pos = @ + 1],
                   ![r].senders[i] =
                       IF result.raises THEN [@ EXCEPT !.raised = TRUE]
                       ELSE [@ EXCEPT !.returned = Append(@, result.frame)]]
    /\ UNCHANGED <<env, stats, health, now, ticks, iceVars, pcs,
                   server_stats, req, shutdown, history>>

(***************************************************************************)
(* on_shutdown (lines 238-243).                                            *)
(***************************************************************************)
\* Lines 240-242: a close() coroutine is made for every member of pcs and
\* the handler awaits them all.  With pcs empty, gather() returns a future
\* that is already done: awaiting it does not suspend, and the handler runs
\* to its end (pcs.clear() of the empty set) in the same step.
ShutdownBegin ==
    /\ shutdown.phase = "running"
    /\ shutdown' = [shutdown EXCEPT
                       !.phase = IF pcs = {} THEN "done" ELSE "closing",
                       !.closing = pcs, !.at_begin = pcs]
    /\ UNCHANGED <<env, stats, health, now, ticks, iceVars, pcs,
                   server_stats, req, pc, history>>

\* One pc.close() runs.  It returns: a connection that is not closed yet
\* becomes closed, and the change is notified.  Or it raises, and the
\* connection is left as it was: gather keeps the exception as a result.
PcClose(r) ==
    /\ shutdown.phase = "closing"
    /\ r \in shutdown.closing
    /\ \/ /\ shutdown' = [shutdown EXCEPT !.closing = @ \ {r},
                                           !.calls[r] = @ + 1]
          /\ pc' = IF pc[r].connectionState = "closed" THEN pc
                   ELSE [pc EXCEPT ![r].connectionState = "closed",
                                   ![r].pending = @ + 1]
       \/ /\ shutdown' = [shutdown EXCEPT !.closing = @ \ {r},
                                           !.calls[r] = @ + 1,
                                           !.errors = @ \cup {r}]
          /\ UNCHANGED pc
    /\ UNCHANGED <<env, stats, health, now, ticks, iceVars, pcs,
                   server_stats, req, history>>

\* gather without return_exceptions=True: the first exception leaves
\* on_shutdown before pcs.clear().
ShutdownEndPropagates ==
    /\ shutdown.phase = "closing"
    /\ shutdown.closing = {}
    /\ shutdown' = [shutdown EXCEPT !.phase = "done",
                                    !.raised = shutdown.errors # {}]
    /\ pcs' = IF shutdown.errors # {} THEN pcs ELSE {}
    /\ UNCHANGED <<env, stats, health, now, ticks, iceVars, server_stats,
                   req, pc, history>>

\* Lines 242-243: every close has returned or raised, gather returns the
\* results (return_exceptions=True), and pcs.clear() runs.
ShutdownEnd ==
    /\ shutdown.phase = "closing"
    /\ shutdown.closing = {}
    /\ shutdown' = [shutdown EXCEPT !.phase = "done"]
    /\ pcs' = {}
    /\ UNCHANGED <<env, stats, health, now, ticks, iceVars, server_stats,
                   req, pc, history>>

(***************************************************************************)
(* The specifications.                                                     *)
(***************************************************************************)
\* The signaling side: the offers, the engine, the observers, the shutdown.
Next ==
    \/ Tick
    \/ \E r \in Offers : OfferBegin(r)
    \/ \E r \in Offers : OfferParse(r)
    \/ \E r \in Offers : OfferRemote(r)
    \/ \E r \in Offers : OfferAnswer(r)
    \/ \E r \in Offers : OfferLocal(r)
    \/ \E r \in Offers : EngineStateChange(r)
    \/ \E r \in Offers : on_connectionstatechange(r)
    \/ ShutdownBegin
    \/ \E r \in Offers : PcClose(r)
    \/ ShutdownEnd

Spec == Init /\ [][Next]_vars

\* The resolver side: the two ICE endpoints, the reader of the cache in
\* GET /stats, and the clock.
NextIce ==
    \/ Tick
    \/ Idle
    \/ get_ice_servers_endpoint
    \/ refresh_ice_servers
    \/ get_stats

SpecIce == Init /\ [][NextIce]_vars

\* The latency window on its own: the connected branch of the observer
\* (lines 190-195) run MaxSamples times.  The first connection takes 0 or
\* 3 s, and each one after it a second more than the one before, from 0
\* again after 6 s.
OnConnected ==
    /\ Len(history) < MaxSamples
    /\ \E total_time \in
            IF history = <<>> THEN {0, 3000}
            ELSE {(history[Len(history)] + 1000) % 7000} :
         RecordSample(total_time)
    /\ UNCHANGED <<env, stats, health, now, ticks, iceVars, pcs, req, pc,
                   shutdown>>

InitLatency == Init /\ ~Truthy(env.TWILIO_ACCOUNT_SID)
                    /\ ~Truthy(env.CUSTOM_TURN_SERVER)

NextLatency == OnConnected

SpecLatency == InitLatency /\ [][NextLatency]_vars

\* The counters and their snapshot: attempts and failures counted in any
\* order, and GET /stats asked at any point.
InitStats == Init /\ ~Truthy(env.TWILIO_ACCOUNT_SID)
                  /\ ~Truthy(env.CUSTOM_TURN_SERVER)

NextStats ==
    \/ CountAttempt
    \/ CountFailure
    \/ get_stats

SpecStats == InitStats /\ [][NextStats]_vars

\* The handlers of POST /offer side by side: MaxRequests requests, each
\* suspended at its awaits while the others run.
NextOffers ==
    \/ \E r \in Requests : OfferBegin(r)
    \/ \E r \in Requests : OfferParse(r)
    \/ \E r \in Requests : OfferRemote(r)
    \/ \E r \in Requests : OfferAnswer(r)
    \/ \E r \in Requests : OfferLocal(r)

SpecOffers == Init /\ [][NextOffers]_vars

\* The shutdown among several sessions: MaxRequests offers, their
\* connections' lives and observers, and on_shutdown at any point, on a
\* server with no relay configured.
InitShutdown == Init /\ ~Truthy(env.TWILIO_ACCOUNT_SID)
                     /\ ~Truthy(env.CUSTOM_TURN_SERVER)

NextShutdown ==
    \/ \E r \in Requests : OfferBegin(r)
    \/ \E r \in Requests : OfferParse(r)
    \/ \E r \in Requests : OfferRemote(r)
    \/ \E r \in Requests : OfferAnswer(r)
    \/ \E r \in Requests : OfferLocal(r)
    \/ \E r \in Requests : EngineStateChange(r)
    \/ \E r \in Requests : on_connectionstatechange(r)
    \/ ShutdownBegin
    \/ \E r \in Requests : PcClose(r)
    \/ ShutdownEnd

SpecShutdown == InitShutdown /\ [][NextShutdown]_vars

\* The registry and its readers: MaxOffers offers, their connections'
\* lives and observers, on_shutdown, and GET /stats and GET /health asked
\* at any point, on a server with no relay configured.
InitRegistry == Init /\ ~Truthy(env.TWILIO_ACCOUNT_SID)
                     /\ ~Truthy(env.CUSTOM_TURN_SERVER)

NextRegistry ==
    \/ \E r \in Offers : OfferBegin(r)
    \/ \E r \in Offers : OfferParse(r)
    \/ \E r \in Offers : OfferRemote(r)
    \/ \E r \in Offers : OfferAnswer(r)
    \/ \E r \in Offers : OfferLocal(r)
    \/ \E r \in Offers : EngineStateChange(r)
    \/ \E r \in Offers : on_connectionstatechange(r)
    \/ ShutdownBegin
    \/ \E r \in Offers : PcClose(r)
    \/ ShutdownEnd
    \/ get_stats
    \/ health_check

SpecRegistry == InitRegistry /\ [][NextRegistry]_vars

\* The media side: one offer with the tracks it announces, and the echo of
\* their frames, on a server with no relay configured.
InitMedia == Init /\ ~Truthy(env.TWILIO_ACCOUNT_SID)
                  /\ ~Truthy(env.CUSTOM_TURN_SERVER)

\* The tracks and relays of one connection are its own: the run follows
\* one request.
MediaOffers == {1}

NextMedia ==
    \/ \E r \in MediaOffers : OfferBegin(r)
    \/ \E r \in MediaOffers : OfferParse(r)
    \/ \E r \in MediaOffers : on_track(r)
    \/ \E r \in MediaOffers : OfferRemote(r)
    \/ \E r \in MediaOffers : OfferAnswer(r)
    \/ \E r \in MediaOffers : OfferLocal(r)
    \/ \E r \in MediaOffers : recv(r)

SpecMedia == InitMedia /\ [][NextMedia]_vars

(***************************************************************************)
(* The claims.                                                             *)
(***************************************************************************)
\* C1: in every reachable state, whatever offers were handled and however
\* they ended, failed_connections <= total_connections.
C1_FailedAtMostTotal ==
    server_stats.failed_connections <= server_stats.total_connections

\* C2: an offer that fails after its peer connection was created and added
\* to pcs (setRemoteDescription, createAnswer or setLocalDescription raised)
\* has incremented failed_connections exactly once, has answered 500, and
\* its peer connection was not in pcs when the handler returned.
C2_FailedOfferLeavesNoSession ==
    \A r \in Offers :
        (req[r].at = "done" /\ req[r].created
           /\ req[r].failed_at \in {"remote", "answer", "local"})
        => /\ req[r].failed_incs = 1
           /\ req[r].status = 500
           /\ ~req[r].in_pcs_at_return

\* C3: an offer whose body has no sdp is answered 500, has incremented
\* failed_connections exactly once and total_connections not at all, and
\* has put no peer connection in pcs.
C3_MalformedOffer ==
    \A r \in Handlers :
        (req[r].at = "done" /\ req[r].body = "no-sdp")
        => /\ req[r].status = 500
           /\ req[r].failed_incs = 1
           /\ req[r].total_incs = 0
           /\ ~req[r].created
           /\ pc[r] = NoPc
           /\ r \notin pcs

C3_Witness ==
    \E r \in Handlers :
        /\ req[r].at = "done" /\ req[r].body = "no-sdp"
        /\ server_stats.failed_connections > 0

\* C4: the observer of one peer connection appends at most one latency
\* sample, whatever notifications it is sent and whenever its tasks run.
C4_OneSamplePerSession ==
    \A r \in Offers : pc[r].samples <= 1

\* C5: connection_times holds at most 100 entries, and they are the most
\* recently appended samples, in the order they were appended.
C5_LastHundredInOrder ==
    LET times == server_stats.connection_times
        n == Len(history)
        k == IF n < 100 THEN n ELSE 100
    IN  /\ Len(times) = k
        /\ \A i \in 1 .. k : times[i] = history[n - k + i]

C5_Witness ==
    /\ Len(history) >= 105
    /\ Len(server_stats.connection_times) = 100
    /\ server_stats.connection_times[1] = history[Len(history) - 99]
    /\ server_stats.connection_times[1] # history[1]

\* C6: a call of get_ice_servers made less than the TTL after a resolution
\* filled the cache -- with any list, an empty one too -- returns the cached
\* list, asks the credential service nothing, and leaves the cache and its
\* timestamp as they were.
C6_FreshCacheIsReturned ==
    (/\ ice_call.op = "ice-servers"
     /\ ice_call.pre_cache # NoList
     /\ ice_call.at - ice_call.pre_timestamp < 3600)
    => /\ ice_call.calls = 0
       /\ ice_call.result = ice_call.pre_cache[1]
       /\ _ice_servers_cache = ice_call.pre_cache
       /\ _cache_timestamp = ice_call.pre_timestamp

\* The credential service failed: the request raised, or an entry of its
\* answer has no urls.
TwilioFailed(outcome) ==
    \/ outcome.raises # ""
    \/ \E i \in 1 .. Len(outcome.ice_servers) :
           "urls" \notin DOMAIN outcome.ice_servers[i]

\* What the spec says is returned when the credential service is not used:
\* the two public STUN servers, and the operator's relay after them when a
\* relay host is configured.
PublicStun ==
    << [urls |-> UrlStr(Url("stun", "stun.l.google.com", 19302, ""))],
       [urls |-> UrlStr(Url("stun", "stun1.l.google.com", 19302, ""))] >>

OperatorRelay ==
    [urls |-> UrlStr(Url("turn", env.CUSTOM_TURN_SERVER, 3478, "")),
     username |-> IF env.CUSTOM_TURN_USER = None THEN "webrtc"
                  ELSE env.CUSTOM_TURN_USER,
     credential |-> IF env.CUSTOM_TURN_PASS = None THEN "webrtc123"
                    ELSE env.CUSTOM_TURN_PASS]

\* C7: get_ice_servers never raises; when the credential service was asked
\* and failed (network, auth, malformed answer), the call returns the STUN
\* pair with the operator's relay if a relay host is configured, and the
\* STUN pair alone if not, and the endpoint answers 200 with that list.
C7_ResolveNeverFails ==
    /\ ~ice_call.raised
    /\ (ice_call.calls > 0 /\ TwilioFailed(ice_call.outcome))
       => /\ ice_call.status = 200
          /\ ice_call.result =
                 IF env.CUSTOM_TURN_SERVER # None
                 THEN PublicStun \o <<OperatorRelay>>
                 ELSE PublicStun
          /\ ice_call.body = ice_call.result

C7_Witness ==
    /\ ice_call.calls > 0
    /\ ice_call.outcome.raises = ""
    /\ TwilioFailed(ice_call.outcome)
    /\ env.CUSTOM_TURN_SERVER # None
    /\ Len(ice_call.result) = 3

\* The call recorded in ice_call did not use the cache.
CacheMissed ==
    \/ ice_call.op = "refresh-ice"
    \/ /\ ice_call.op = "ice-servers"
       /\ \/ ice_call.pre_cache = NoList
          \/ ice_call.at - ice_call.pre_timestamp >= 3600

\* C8: with a relay host and no Twilio variable set, a call that misses the
\* cache returns three descriptors: the two public STUN servers, without
\* credentials, then one TURN descriptor naming the configured host, with
\* the configured username and password.
C8_RelayAfterStunPair ==
    (/\ env.CUSTOM_TURN_SERVER # None
     /\ env.TWILIO_ACCOUNT_SID = None /\ env.TWILIO_AUTH_TOKEN = None
     /\ CacheMissed)
    => /\ Len(ice_call.result) = 3
       /\ ice_call.result[1] = PublicStun[1]
       /\ ice_call.result[2] = PublicStun[2]
       /\ DOMAIN ice_call.result[1] = {"urls"}
       /\ DOMAIN ice_call.result[2] = {"urls"}
       /\ ice_call.result[3].urls.items =
              <<Url("turn", env.CUSTOM_TURN_SERVER, 3478, "")>>
       /\ ice_call.result[3].username = OperatorRelay.username
       /\ ice_call.result[3].credential = OperatorRelay.credential
       /\ env.CUSTOM_TURN_USER # None
          => /\ ice_call.result[3].username = env.CUSTOM_TURN_USER
             /\ ice_call.result[3].credential = env.CUSTOM_TURN_PASS

C8_Witness ==
    /\ env.CUSTOM_TURN_SERVER # None
    /\ env.CUSTOM_TURN_USER = "operator"
    /\ env.TWILIO_ACCOUNT_SID = None
    /\ ice_call.op = "ice-servers"
    /\ ice_call.pre_cache # NoList
    /\ ice_call.at - ice_call.pre_timestamp >= 3600
    /\ Len(ice_call.result) = 3

\* C9: with no Twilio configuration and no relay host, every call of
\* get_ice_servers, served from the cache or not, returns STUN descriptors
\* only, none with a username or a credential.
C9_StunOnlyWithoutConfiguration ==
    (/\ ~TwilioConfigured(env)
     /\ env.CUSTOM_TURN_SERVER = None
     /\ ice_call.op # "none")
    => /\ Len(ice_call.result) > 0
       /\ \A i \in 1 .. Len(ice_call.result) :
            /\ \A j \in 1 .. Len(ice_call.result[i].urls.items) :
                   ice_call.result[i].urls.items[j].scheme = "stun"
            /\ Get(ice_call.result[i], "username") = None
            /\ Get(ice_call.result[i], "credential") = None

C9_Witness ==
    /\ ~TwilioConfigured(env)
    /\ env.CUSTOM_TURN_SERVER = None
    /\ ice_call.op = "ice-servers"
    /\ ice_call.pre_cache # NoList
    /\ ice_call.at - ice_call.pre_timestamp < 3600
    /\ Len(ice_call.result) = 2

\* C10: POST /refresh-ice, whatever the cache held, resolves again before it
\* answers: with Twilio configured it asks the credential service at least
\* once, and when it returns the cache holds the list it answered with and
\* the timestamp is the time of the refresh.
C10_RefreshResolvesAgain ==
    ice_call.op = "refresh-ice"
    => /\ ice_call.status = 200
       /\ ice_call.body = ice_call.result
       /\ TwilioConfigured(env) => ice_call.calls >= 1
       /\ _ice_servers_cache = Some(ice_call.result)
       /\ _cache_timestamp = ice_call.at

C10_Witness ==
    /\ ice_call.op = "refresh-ice"
    /\ TwilioConfigured(env)
    /\ TruthyList(ice_call.pre_cache)
    /\ ice_call.at - ice_call.pre_timestamp < 3600
    /\ ice_call.calls = 1


\* A descriptor of a session's configuration that has a username and a
\* credential and no URL at all.
CredentialsWithoutUrls(server) ==
    /\ Truthy(server.username) /\ Truthy(server.credential)
    /\ Len(server.urls.items) = 0

\* C11: no peer connection is ever created with a configuration in which a
\* descriptor has a username and a credential together with an empty urls
\* list: such a descriptor is dropped by convert_to_rtc_ice_servers.
C11_NoCredentialsWithoutUrls ==
    \A r \in Offers : \A i \in DOMAIN pc[r].iceServers :
        ~CredentialsWithoutUrls(pc[r].iceServers[i])

\* C12: the step in which on_shutdown completes leaves pcs empty, close()
\* has been invoked exactly once on every connection that was in pcs when
\* the handler began, whether or not some of the closes raised, and no
\* exception leaves the handler.
C12_ShutdownClosesAll ==
    [][ (shutdown.phase = "closing" /\ shutdown'.phase = "done") =>
          /\ pcs' = {}
          /\ \A r \in shutdown'.at_begin : shutdown'.calls[r] = 1
          /\ \A r \in Handlers \ shutdown'.at_begin : shutdown'.calls[r] = 0
          /\ ~shutdown'.raised ]_vars

\* on_shutdown has completed with two connections in the registry at its
\* beginning: the close() of one raised, the close() of the other did not.
C12_Witness ==
    /\ shutdown.phase = "done"
    /\ Cardinality(shutdown.at_begin) >= 2
    /\ shutdown.errors # {} /\ shutdown.errors # shutdown.at_begin
    /\ \A r \in shutdown.at_begin : shutdown.calls[r] = 1
    /\ pcs = {}

\* The connection states in which the observer removes the connection.
Terminal == {"failed", "closed"}

\* A connection is in pcs from its creation for as long as its state is
\* not failed or closed.
C13_MemberWhileLive ==
    \A r \in Offers :
        (req[r].created /\ pc[r].connectionState \notin Terminal) => r \in pcs

\* Once the observer has run with the state failed or closed, the
\* connection is not in pcs, whatever happens afterwards.
C13_RemovedForGood ==
    \A r \in Offers : pc[r].removed => r \notin pcs

\* C13: a connection is added to pcs when it is created and stays in it
\* while its state is not failed or closed; once its observer has run with
\* the state failed or closed it is not in pcs and never comes back, a
\* second such notification included.
C13_RegistryMembership == C13_MemberWhileLive /\ C13_RemovedForGood

\* C14: the frames an AudioEchoTrack's recv has returned are exactly the
\* frames its inbound track has yielded so far, the same values in the same
\* order; and its recv has raised exactly when the inbound track has
\* raised, which is after all of the track's frames were returned.
C14_EchoIsIdentity ==
    \A r \in Offers : \A i \in DOMAIN pc[r].senders :
        LET sender == pc[r].senders[i]
            track == pc[r].tracks[sender.track]
        IN  /\ sender.returned = SubSeq(track.frames, 1, track.pos)
            /\ sender.raised = track.failed
            /\ sender.raised => sender.returned = track.frames

\* An AudioEchoTrack has returned three frames, one of them twice, and then
\* raised the inbound track's error.
C14_Witness ==
    \E r \in Offers : \E i \in DOMAIN pc[r].senders :
        /\ pc[r].senders[i].returned = <<"f2", "f1", "f1">>
        /\ pc[r].senders[i].raised

\* C15: a peer connection is given at most one AudioEchoTrack over its
\* life, whatever tracks the engine announces for it.
C15_OneRelayPerSession ==
    \A r \in Offers : Len(pc[r].senders) <= 1

\* C16: once every request that arrived has returned, however the
\* handlers were interleaved at their awaits, total_connections is the
\* number of requests that created a peer connection and
\* failed_connections is the number of requests that answered 500.
C16_NoLostUpdate ==
    (\A r \in Handlers : req[r].at \in {"idle", "done"}) =>
        /\ server_stats.total_connections =
               Cardinality({r \in Handlers : req[r].created})
        /\ server_stats.failed_connections =
               Cardinality({r \in Handlers : req[r].status = 500})

\* Every request has returned; two of them created a peer connection and
\* two failed, one of these after its connection was created and one
\* before, and both counters stand at 2.
C16_Witness ==
    /\ \A r \in Requests : req[r].at = "done"
    /\ Cardinality({r \in Requests : req[r].created}) >= 2
    /\ \E r \in Requests : req[r].created /\ req[r].status = 500
    /\ server_stats.total_connections >= 2
    /\ server_stats.failed_connections >= 2

\* C18: every answer of GET /stats reports success_rate equal to
\* (total - failed) / max(total, 1) * 100 of the counters as they are when
\* it is asked: 80 for 10 attempts and 2 failures, 0 when nothing has been
\* counted.
C18_SuccessRate ==
    [][ stats' # stats =>
          LET total == server_stats.total_connections
              failed == server_stats.failed_connections
              rate == stats'.success_rate
          IN  /\ rate.den > 0
              /\ rate.num * Max(total, 1) = (total - failed) * 100 * rate.den
              /\ (total = 10 /\ failed = 2) => rate.num = 80 * rate.den
              /\ (total = 0 /\ failed = 0) => rate.num = 0 ]_vars

\* GET /stats was asked after 10 attempts and 2 failures and answered 80.
C18_Witness ==
    /\ stats.asked
    /\ stats.total_connections = 10 /\ stats.failed_connections = 2
    /\ stats.success_rate.num = 80 * stats.success_rate.den

\* C17: however the requests that read and write the cache follow each
\* other, the two globals are always a pair: cleared together (no list,
\* timestamp 0), or the list and the time of one call of get_ice_servers.
\* A step that changes either of them writes both from the same call, and
\* GET /stats never reports an age for a list that is not there.
C17_CachePairIsAtomic ==
    [][ /\ _ice_servers_cache' = NoList => _cache_timestamp' = 0
        /\ <<_ice_servers_cache, _cache_timestamp>>' #
               <<_ice_servers_cache, _cache_timestamp>>
           => /\ ice_call'.calls > 0 \/ CacheMissed'
              /\ _ice_servers_cache' = Some(ice_call'.result)
              /\ _cache_timestamp' = ice_call'.at
        /\ (stats' # stats /\ _ice_servers_cache = NoList)
           => stats'.cache_age_seconds = 0 ]_vars

\* GET /stats has read a filled cache some time after it was written, and a
\* refresh has since replaced the list and the timestamp.
C17_Witness ==
    /\ stats.asked
    /\ stats.total_ice_servers > 0 /\ stats.cache_age_seconds > 0
    /\ ice_call.op = "refresh-ice"
    /\ _ice_servers_cache = Some(ice_call.result)
    /\ _cache_timestamp = ice_call.at

\* The descriptors the credential service answered, as the spec says they
\* are returned: each with its urls, username and credential.
ServiceServers(outcome) ==
    [i \in 1 .. Len(outcome.ice_servers) |->
        LET entry == outcome.ice_servers[i] IN
        [urls |-> entry.urls,
         username |-> IF "username" \in DOMAIN entry THEN entry.username
                      ELSE None,
         credential |-> IF "credential" \in DOMAIN entry THEN entry.credential
                        ELSE None]]

\* The list of the static provider and the default, as the spec gives it.
StaticServers ==
    IF env.CUSTOM_TURN_SERVER # None THEN PublicStun \o <<OperatorRelay>>
    ELSE PublicStun

\* C19: on a cache miss the credential service comes first.  When it is
\* configured and its request succeeds, the list returned and cached is
\* exactly the service's list, with none of the public STUN servers and
\* not the operator's relay in it; the static list is returned only when
\* the service is not configured (or only half configured) or has failed.
C19_ProviderOrder ==
    (ice_call.op # "none" /\ (ice_call.calls > 0 \/ CacheMissed))
    => /\ (ice_call.calls > 0) = TwilioConfigured(env)
       /\ (ice_call.calls > 0 /\ ~TwilioFailed(ice_call.outcome))
          => /\ ice_call.result = ServiceServers(ice_call.outcome)
             /\ _ice_servers_cache = Some(ice_call.result)
             /\ \A i \in 1 .. Len(ice_call.result) :
                    /\ \A j \in 1 .. Len(PublicStun) :
                           ice_call.result[i].urls # PublicStun[j].urls
                    /\ env.CUSTOM_TURN_SERVER # None
                       => ice_call.result[i].urls # OperatorRelay.urls
       /\ (ice_call.calls = 0 \/ TwilioFailed(ice_call.outcome))
          => ice_call.result = StaticServers

\* The credential service answered two descriptors on a miss, on a server
\* that also has an operator relay configured.
C19_Witness ==
    /\ ice_call.calls > 0 /\ ~TwilioFailed(ice_call.outcome)
    /\ env.CUSTOM_TURN_SERVER # None
    /\ Len(ice_call.result) = 2
    /\ _ice_servers_cache = Some(ice_call.result)

\* C20: a call of get_ice_servers made _cache_ttl seconds or more after
\* the resolution that filled the cache does not answer from the cache: it
\* asks the providers again, stores what they give and sets the timestamp
\* to the time of the call.
C20_StaleCacheIsResolvedAgain ==
    (/\ ice_call.op = "ice-servers"
     /\ ice_call.pre_cache # NoList
     /\ ice_call.at - ice_call.pre_timestamp >= 3600)
    => /\ (ice_call.calls > 0) = TwilioConfigured(env)
       /\ ice_call.result =
              IF ice_call.calls > 0 /\ ~TwilioFailed(ice_call.outcome)
              THEN ServiceServers(ice_call.outcome)
              ELSE StaticServers
       /\ _ice_servers_cache = Some(ice_call.result)
       /\ _cache_timestamp = ice_call.at

\* A list cached exactly _cache_ttl seconds ago was replaced by a different
\* one that the credential service gave.
C20_Witness ==
    /\ ice_call.op = "ice-servers"
    /\ TruthyList(ice_call.pre_cache)
    /\ ice_call.at - ice_call.pre_timestamp = 3600
    /\ ice_call.calls = 1
    /\ ice_call.result # ice_call.pre_cache[1]
    /\ _cache_timestamp = ice_call.at

\* C21: a call of get_ice_servers that does not answer from the cache
\* stores the list it returns, whole, with the time of the call, whether
\* the list is the credential service's or the fallback; and a call made
\* less than _cache_ttl seconds after the fallback list was stored returns
\* that list without asking the credential service, and leaves the cache
\* and its timestamp as they were.
C21_FallbackIsCached ==
    /\ (ice_call.op # "none" /\ (ice_call.calls > 0 \/ CacheMissed))
       => /\ _ice_servers_cache = Some(ice_call.result)
          /\ _cache_timestamp = ice_call.at
          /\ (ice_call.calls > 0 /\ TwilioFailed(ice_call.outcome))
             => ice_call.result = StaticServers
    /\ (/\ ice_call.op = "ice-servers"
        /\ ice_call.pre_cache = Some(StaticServers)
        /\ ice_call.at - ice_call.pre_timestamp < 3600)
       => /\ ice_call.calls = 0
          /\ ice_call.result = StaticServers
          /\ _ice_servers_cache = ice_call.pre_cache
          /\ _cache_timestamp = ice_call.pre_timestamp

\* With the credential service configured, the fallback list was in the
\* cache (so an earlier request to the service had failed), and a call made
\* 3599 s later returned it without asking the service.
C21_Witness ==
    /\ ice_call.op = "ice-servers"
    /\ TwilioConfigured(env)
    /\ ice_call.pre_cache = Some(StaticServers)
    /\ ice_call.at - ice_call.pre_timestamp = 3599
    /\ ice_call.calls = 0
    /\ ice_call.result = StaticServers

\* C22: after every step, len(pcs) is at most total_connections.  The
\* counter never decreases; a step that adds a connection to pcs adds one
\* and increments the counter by one in the same step; and the number that
\* GET /stats and GET /health report is len(pcs) when they are asked, at
\* most the counter.
C22_RegistryAtMostTotal ==
    [][ /\ Cardinality(pcs') <= server_stats'.total_connections
        /\ server_stats'.total_connections >= server_stats.total_connections
        /\ pcs' \ pcs # {}
           => /\ Cardinality(pcs' \ pcs) = 1
              /\ server_stats'.total_connections =
                     server_stats.total_connections + 1
        /\ stats' # stats
           => /\ stats'.current_connections = Cardinality(pcs)
              /\ stats'.current_connections <= stats'.total_connections
        /\ health' # health
           => /\ health'.connections = Cardinality(pcs)
              /\ health'.connections <= server_stats.total_connections
      ]_vars

\* GET /health was asked while a connection was in pcs, and GET /stats
\* after the observer had removed it.
C22_Witness ==
    /\ health.asked /\ health.connections = 1
    /\ stats.asked
    /\ stats.current_connections = 0 /\ stats.total_connections = 1
    /\ \E r \in Offers : pc[r].removed
    /\ pcs = {}

====
